---- MODULE Spec2Model ----
(***************************************************************************)
(* urwid_ueberzogen: Image / Container widgets that keep ueberzug image    *)
(* placements synchronised with the position of their placeholder widgets. *)
(*                                                                         *)
(* The program state is the Container's fields (_visibility,               *)
(* _last_visible_placements), the attributes of the ueberzug placements    *)
(* (x, y, width, height, visibility) and the widget's "invalidated" mark.  *)
(* A render pass takes the widget tree as laid out at that moment, builds  *)
(* the canvas tree the host toolkit builds for it (children and shards),   *)
(* and runs Container.render on it.                                        *)
(***************************************************************************)
EXTENDS Integers, Sequences, FiniteSets, TLC

VARIABLES
    visibility,                 \* Container._visibility
    placement,                  \* attributes of every ueberzug placement
    last_visible_placements,    \* Container._last_visible_placements
    invalidated,                \* the widget's canvas cache was invalidated
    op,                         \* history: the operation that produced this state
    pass                        \* history: what the last render pass saw and did

vars == <<visibility, placement, last_visible_placements, invalidated,
          op, pass>>

----------------------------------------------------------------------------
(* Bounds of the model. *)

MaxW == 2        \* widest text leaf, in columns
MaxH == 2        \* tallest text leaf, in rows
MaxPad == 1      \* widest left / right padding, in columns

----------------------------------------------------------------------------
(* ueberzug.Visibility and the placements. *)

VISIBLE == "VISIBLE"
INVISIBLE == "INVISIBLE"
Visibility == {VISIBLE, INVISIBLE}

Placements == {"p1", "p2"}
NoPlacement == "none"

----------------------------------------------------------------------------
(* Small helpers. *)

RECURSIVE SumSeq(_)
SumSeq(s) == IF s = <<>> THEN 0 ELSE Head(s) + SumSeq(Tail(s))

RECURSIVE ConcatSeq(_)
ConcatSeq(ss) == IF ss = <<>> THEN <<>> ELSE Head(ss) \o ConcatSeq(Tail(ss))

MaxOf(S) == CHOOSE m \in S : \A n \in S : n <= m
MinOf(S) == CHOOSE m \in S : \A n \in S : m <= n

----------------------------------------------------------------------------
(* Widget trees: the layouts a render pass can meet.  Text leaves, Image   *)
(* widgets (this repository), and the host toolkit's Columns, Pile and     *)
(* Padding containers.                                                     *)

Text(w, h) ==
    [k |-> "text", w |-> w, h |-> h, l |-> 0, r |-> 0, p |-> NoPlacement, cs |-> <<>>]
Image(p, widget) ==
    [k |-> "image", w |-> 0, h |-> 0, l |-> 0, r |-> 0, p |-> p, cs |-> <<widget>>]
Padding(l, r, widget) ==
    [k |-> "pad", w |-> 0, h |-> 0, l |-> l, r |-> r, p |-> NoPlacement, cs |-> <<widget>>]
Columns(widgets) ==
    [k |-> "cols", w |-> 0, h |-> 0, l |-> 0, r |-> 0, p |-> NoPlacement, cs |-> widgets]
Pile(widgets) ==
    [k |-> "pile", w |-> 0, h |-> 0, l |-> 0, r |-> 0, p |-> NoPlacement, cs |-> widgets]

----------------------------------------------------------------------------
(* Canvases.  A canvas view (cview) of a shard is the toolkit's tuple      *)
(* (trim_left, trim_top, cols, rows, attr_map, canvas); the code reads its *)
(* third, fourth and last field only.  A leaf canvas object is identified  *)
(* by id: the path of its widget, a fresh id for a fill canvas, BlankId    *)
(* for the toolkit's shared blank_canvas.                                  *)

BlankId == <<0>>

CView(cols, rows, canv) == [cols |-> cols, rows |-> rows, canv |-> canv]
Shard(rows, cviews) == [rows |-> rows, cviews |-> cviews]
Child(x, y, canvas) == [x |-> x, y |-> y, canvas |-> canvas]

TextCanvas(id, cols, rows) ==
    [kind |-> "text", id |-> id, placement |-> NoPlacement,
     cols |-> cols, rows |-> rows, children |-> <<>>, shards |-> <<>>]

\* urwid.CompositeCanvas(canv): shares the shards of a composite canvas,
\* wraps a leaf canvas into one shard of one view; canv is its only child.
CompositeCanvas(canv) ==
    [kind |-> "composite", id |-> <<>>, placement |-> NoPlacement,
     cols |-> canv.cols, rows |-> canv.rows,
     children |-> <<Child(0, 0, canv)>>,
     shards |-> IF canv.kind = "text"
                THEN <<Shard(canv.rows, <<CView(canv.cols, canv.rows, canv.id)>>)>>
                ELSE canv.shards]

\* Image.Canvas(placement, canvas): a CompositeCanvas carrying the placement.
ImageCanvas(p, canv) ==
    [CompositeCanvas(canv) EXCEPT !.kind = "image", !.placement = p]

\* CompositeCanvas.pad_trim_left_right(left, right) with left, right >= 0:
\* blank views as tall as the canvas join the first shard; the children are
\* left as they are.
PadLeftRight(canv, left, right) ==
    IF left = 0 /\ right = 0 THEN canv
    ELSE LET top == canv.shards[1]
             lpad == IF left > 0 THEN <<CView(left, canv.rows, BlankId)>> ELSE <<>>
             rpad == IF right > 0 THEN <<CView(right, canv.rows, BlankId)>> ELSE <<>>
         IN [canv EXCEPT
                !.cols = canv.cols + left + right,
                !.shards = <<Shard(top.rows, lpad \o top.cviews \o rpad)>>
                           \o Tail(canv.shards)]

\* CompositeCanvas.pad_trim_top_bottom(0, bottom) with bottom >= 0: a shard
\* holding a fresh fill canvas is added below.
PadBottom(canv, bottom, fillId) ==
    IF bottom = 0 THEN canv
    ELSE [canv EXCEPT
            !.rows = canv.rows + bottom,
            !.shards = canv.shards
                       \o <<Shard(bottom, <<CView(canv.cols, bottom, fillId)>>)>>]

\* urwid.canvas.shards_join: the shard lists of side-by-side canvases of equal
\* height are cut at every row where one of them starts a new shard.
\* cur[i] is column i's current (rows left, cviews not yet emitted), idx[i]
\* the position of its iterator.
RECURSIVE ShardsJoinLoop(_, _, _, _)
ShardsJoinLoop(lists, idx, cur, out) ==
    LET n == Len(lists)
        num_rows == MinOf({cur[i].rows : i \in 1..n})
        new_cviews == ConcatSeq([i \in 1..n |-> cur[i].cviews])
        left == [i \in 1..n |-> cur[i].rows - num_rows]
        exhausted == \E i \in 1..n : left[i] = 0 /\ idx[i] = Len(lists[i])
        idx2 == [i \in 1..n |-> IF left[i] = 0 /\ idx[i] < Len(lists[i])
                                THEN idx[i] + 1 ELSE idx[i]]
        cur2 == [i \in 1..n |-> IF left[i] = 0 /\ idx[i] < Len(lists[i])
                                THEN lists[i][idx2[i]]
                                ELSE Shard(left[i], <<>>)]
        out2 == Append(out, Shard(num_rows, new_cviews))
    IN IF exhausted THEN out2 ELSE ShardsJoinLoop(lists, idx2, cur2, out2)

shards_join(lists) ==
    ShardsJoinLoop(lists, [i \in 1..Len(lists) |-> 1],
                   [i \in 1..Len(lists) |-> lists[i][1]], <<>>)

\* urwid.CanvasJoin: canvases side by side.  Each is wrapped, padded at the
\* bottom to the tallest, and becomes a child at its column offset.
CanvasJoin(canvs, path) ==
    LET n == Len(canvs)
        maxrow == MaxOf({canvs[i].rows : i \in 1..n})
        padded == [i \in 1..n |->
                     PadBottom(CompositeCanvas(canvs[i]), maxrow - canvs[i].rows,
                               path \o <<i, 0>>)]
        col(i) == SumSeq([j \in 1..(i - 1) |-> padded[j].cols])
    IN [kind |-> "composite", id |-> <<>>, placement |-> NoPlacement,
        cols |-> col(n + 1), rows |-> maxrow,
        children |-> [i \in 1..n |-> Child(col(i), 0, padded[i])],
        shards |-> shards_join([i \in 1..n |-> padded[i].shards])]

\* urwid.CanvasCombine: canvases of equal width one below the other.
CanvasCombine(canvs) ==
    LET n == Len(canvs)
        clist == [i \in 1..n |-> CompositeCanvas(canvs[i])]
        row(i) == SumSeq([j \in 1..(i - 1) |-> clist[j].rows])
    IN [kind |-> "composite", id |-> <<>>, placement |-> NoPlacement,
        cols |-> clist[1].cols, rows |-> row(n + 1),
        children |-> [i \in 1..n |-> Child(0, row(i), clist[i])],
        shards |-> ConcatSeq([i \in 1..n |-> clist[i].shards])]

\* widget.render(size): the canvas tree of a widget tree.  Image.render
\* (this repository) wraps the canvas of the wrapped widget in an
\* Image.Canvas; the other widgets are the host toolkit's.
RECURSIVE RenderWidget(_, _)
RenderWidget(wd, path) ==
    CASE wd.k = "text" -> TextCanvas(path, wd.w, wd.h)
      [] wd.k = "image" -> ImageCanvas(wd.p, RenderWidget(wd.cs[1], path \o <<1>>))
      [] wd.k = "pad" ->
            PadLeftRight(CompositeCanvas(RenderWidget(wd.cs[1], path \o <<1>>)),
                         wd.l, wd.r)
      [] wd.k = "cols" ->
            CanvasJoin([i \in 1..Len(wd.cs) |-> RenderWidget(wd.cs[i], path \o <<i>>)],
                       path)
      [] wd.k = "pile" ->
            CanvasCombine([i \in 1..Len(wd.cs) |-> RenderWidget(wd.cs[i], path \o <<i>>)])

----------------------------------------------------------------------------
(* Container._calculate_trims.                                             *)

\* The ltrims entries whose row range holds curr_row, summed.
RowLtrim(ltrims, curr_row) ==
    SumSeq([n \in 1..Len(ltrims) |->
              IF ltrims[n].start <= curr_row /\ curr_row < ltrims[n].end
              THEN ltrims[n].amt ELSE 0])

\* The value the inner loop gives to view idx of a shard: the row's ltrim
\* plus the third field of every view before it in the shard.
ViewLtrim(total_row_ltrim, cviews, idx) ==
    total_row_ltrim + SumSeq([n \in 1..(idx - 1) |-> cviews[n].cols])

\* The entry the inner loop appends to ltrims: that of the shard's first
\* view only (idx == 0).
NewLtrims(ltrims, curr_row, cviews) ==
    IF cviews = <<>> THEN ltrims
    ELSE Append(ltrims, [start |-> curr_row,
                         end |-> curr_row + cviews[1].rows,
                         amt |-> cviews[1].cols])

\* setattr(cview_canvas, "total_ltrim", ...) for the views of one shard, in
\* order: the last view holding a canvas object decides its attribute.
SetTrims(total_ltrim, total_row_ltrim, cviews) ==
    LET ids == {cviews[n].canv : n \in 1..Len(cviews)}
        lastOf(c) == MaxOf({n \in 1..Len(cviews) : cviews[n].canv = c})
    IN [c \in DOMAIN total_ltrim \cup ids |->
           IF c \in ids THEN ViewLtrim(total_row_ltrim, cviews, lastOf(c))
           ELSE total_ltrim[c]]

\* The loop over canvas.shards.  Returns the total_ltrim attribute of every
\* canvas object that got one, and (for the record) the value assigned at
\* each view of each shard.
RECURSIVE CalculateTrimsLoop(_, _, _, _, _, _)
CalculateTrimsLoop(shards, i, curr_row, ltrims, total_ltrim, assigned) ==
    IF i > Len(shards) THEN [total_ltrim |-> total_ltrim, assigned |-> assigned]
    ELSE LET cviews == shards[i].cviews
             total_row_ltrim == RowLtrim(ltrims, curr_row)
         IN CalculateTrimsLoop(
                shards, i + 1, curr_row + shards[i].rows,
                NewLtrims(ltrims, curr_row, cviews),
                SetTrims(total_ltrim, total_row_ltrim, cviews),
                Append(assigned,
                       [n \in 1..Len(cviews) |->
                          ViewLtrim(total_row_ltrim, cviews, n)]))

_calculate_trims(canvas) ==
    CalculateTrimsLoop(canvas.shards, 1, 1, <<>>, <<>>, <<>>)

----------------------------------------------------------------------------
(* Image.render, Image.Canvas.reavel_image, Container.__hide,              *)
(* Container.__render_images.                                              *)

\* Image.render of every Image widget of the tree, in rendering order: the
\* wrapped widget is rendered first, then the placement takes the size of
\* its canvas.  The sequence of (placement, width, height) assignments.
RECURSIVE ImageSizes(_, _)
ImageSizes(wd, path) ==
    LET inner == ConcatSeq([i \in 1..Len(wd.cs) |-> ImageSizes(wd.cs[i], path \o <<i>>)])
    IN IF wd.k = "image"
       THEN LET canvas == RenderWidget(wd.cs[1], path \o <<1>>)
            IN Append(inner, [placement |-> wd.p, width |-> canvas.cols,
                              height |-> canvas.rows])
       ELSE inner

RECURSIVE SetSizes(_, _)
SetSizes(pl, sizes) ==
    IF sizes = <<>> THEN pl
    ELSE SetSizes([pl EXCEPT ![Head(sizes).placement].width = Head(sizes).width,
                             ![Head(sizes).placement].height = Head(sizes).height],
                  Tail(sizes))

\* Faulty variant of reavel_image: moves the placement, forgets to show it.
reavel_image_position_only(pl, p, x, y) ==
    [pl EXCEPT ![p].x = x, ![p].y = y]

reavel_image(pl, p, x, y) ==
    [pl EXCEPT ![p].x = x, ![p].y = y, ![p].visibility = VISIBLE]

Hide(pl, placements) ==
    [p \in Placements |->
        IF p \in placements THEN [pl[p] EXCEPT !.visibility = INVISIBLE] ELSE pl[p]]

\* Faulty variant of PushChildren: only the first child is pushed.
PushFirstChild(x, y, canvas) ==
    [n \in 1..1 |->
        [x |-> canvas.children[n].x + x,
         y |-> canvas.children[n].y + y,
         canvas |-> canvas.children[n].canvas]]

\* The tuples pushed for the children of a composite canvas.
PushChildren(x, y, canvas) ==
    [n \in 1..Len(canvas.children) |->
        [x |-> canvas.children[n].x + x,
         y |-> canvas.children[n].y + y,
         canvas |-> canvas.children[n].canvas]]

\* The while loop over the stack.
RECURSIVE WalkStack(_, _, _, _)
WalkStack(stack, visible_placements, pl, total_ltrim) ==
    IF stack = <<>> THEN [visible |-> visible_placements, placement |-> pl]
    ELSE LET top == stack[Len(stack)]
             rest == SubSeq(stack, 1, Len(stack) - 1)
             current_canvas == top.canvas
         IN IF current_canvas.kind = "image"
            THEN LET first_shard_canvas == current_canvas.shards[1].cviews[1].canv
                 IN WalkStack(rest,
                              visible_placements \cup {current_canvas.placement},
                              reavel_image(pl, current_canvas.placement,
                                           total_ltrim[first_shard_canvas], top.y),
                              total_ltrim)
            ELSE IF current_canvas.kind = "composite"
            THEN WalkStack(rest \o PushChildren(top.x, top.y, current_canvas),
                           visible_placements, pl, total_ltrim)
            ELSE WalkStack(rest, visible_placements, pl, total_ltrim)

\* Faulty variant of Disappeared: last ^ visible, without the intersection.
DisappearedNoIntersection(last, visible_placements) ==
    (last \ visible_placements) \cup (visible_placements \ last)

\* The placements that were visible and are not among the visible ones now.
Disappeared(last, visible_placements) ==
    (last \ (last \cap visible_placements)) \cup ((last \cap visible_placements) \ last)

\* Faulty variant of RenderImages: the container's visibility is not looked at.
RenderImagesAnyVisibility(canvas, vis, last, pl, total_ltrim) ==
    LET walked == WalkStack(<<[x |-> 0, y |-> 0, canvas |-> canvas]>>, {}, pl,
                            total_ltrim)
        disappeared_placements == Disappeared(last, walked.visible)
    IN [placement |-> Hide(walked.placement, disappeared_placements),
        hidden |-> disappeared_placements,
        last_visible_placements |-> walked.visible]

\* __render_images: the walk runs only for a VISIBLE container.
RenderImages(canvas, vis, last, pl, total_ltrim) ==
    LET walked == IF vis = VISIBLE
                  THEN WalkStack(<<[x |-> 0, y |-> 0, canvas |-> canvas]>>, {}, pl,
                                 total_ltrim)
                  ELSE [visible |-> {}, placement |-> pl]
        disappeared_placements == Disappeared(last, walked.visible)
    IN [placement |-> Hide(walked.placement, disappeared_placements),
        hidden |-> disappeared_placements,
        last_visible_placements |-> walked.visible]

----------------------------------------------------------------------------
(* The layouts of the model.                                               *)

WidgetCols(wd) == RenderWidget(wd, <<>>).cols

\* A text leaf, or an Image widget over one.
LeavesOf(texts) == texts \cup {Image(p, t) : p \in Placements, t \in texts}

Pads == {lr \in (0..MaxPad) \X (0..MaxPad) : lr[1] + lr[2] > 0}

\* Piles of two widgets of equal width.
PilesOf(widgets) ==
    {Pile(<<ab[1], ab[2]>>) :
        ab \in {cd \in widgets \X widgets : WidgetCols(cd[1]) = WidgetCols(cd[2])}}

\* One container (or one more Image) over the given widgets.
BoxesOf(widgets, pads) ==
    {Image(p, a) : p \in Placements, a \in widgets}
    \cup {Padding(lr[1], lr[2], a) : lr \in pads, a \in widgets}
    \cup {Columns(<<a, b>>) : a \in widgets, b \in widgets}
    \cup PilesOf(widgets)

\* The layouts of the render passes of Spec: unit text leaves, padding on
\* the left (padding on the right moves nothing).
Leaves == LeavesOf({Text(1, 1)})
Layouts == Leaves \cup BoxesOf(Leaves, {lr \in Pads : lr[2] = 0})

\* The layouts of SpecGeom: text leaves of every size, and rows of three
\* columns or padded rows of two, the last column a pile.
Texts == {Text(w, h) : w \in 1..MaxW, h \in 1..MaxH}
GeomLayouts(texts) ==
    LeavesOf(texts) \cup BoxesOf(LeavesOf(texts), Pads)
    \cup {Columns(<<a, b, c>>) : a \in texts, b \in texts, c \in PilesOf(LeavesOf(texts))}
    \cup {Padding(lr[1], lr[2], Columns(<<a, c>>)) :
            lr \in Pads, a \in texts, c \in PilesOf(LeavesOf(texts))}

\* What the host toolkit hands to Container.render for a layout: the root
\* canvas (WidgetWrap.render wraps the canvas of the wrapped widget) and the
\* sizes the Image widgets set while rendering.
Rendered(layout) ==
    [canvas |-> CompositeCanvas(RenderWidget(layout, <<>>)),
     sizes |-> ImageSizes(layout, <<>>)]

RenderedLayouts == [layout \in Layouts |-> Rendered(layout)]

NoPass == [layout |-> Text(0, 0), prev |-> {}, hidden |-> {}, after |-> "none",
           first |-> FALSE]

Op(name, value) == [name |-> name, value |-> value]

----------------------------------------------------------------------------
(* Operations.                                                             *)

\* Container.__init__, with placements as the application created them.
Init ==
    /\ visibility \in Visibility
    /\ placement \in [Placements ->
                        [x : {0}, y : {0}, width : {0}, height : {0},
                         visibility : Visibility]]
    /\ last_visible_placements = {}
    /\ invalidated = FALSE
    /\ op = Op("init", visibility)
    /\ pass = NoPass

\* Container.render on the widget tree `layout`: the wrapped widget renders
\* (every Image widget sets its placement's size), the trims are calculated,
\* the images are revealed or hidden.
RenderPass(layout, rendered) ==
    LET sized == SetSizes(placement, rendered.sizes)
        trims == _calculate_trims(rendered.canvas)
        done == RenderImages(rendered.canvas, visibility, last_visible_placements,
                             sized, trims.total_ltrim)
    IN /\ placement' = done.placement
       /\ last_visible_placements' = done.last_visible_placements
       /\ invalidated' = FALSE
       /\ pass' = [layout |-> layout, prev |-> last_visible_placements,
                   hidden |-> done.hidden, after |-> op.name,
                   first |-> (pass = NoPass)]
       /\ op' = Op("render", visibility)
       /\ UNCHANGED visibility

Render == \E layout \in Layouts : RenderPass(layout, RenderedLayouts[layout])

\* Container.hide()
HideAll ==
    /\ placement' = Hide(placement, last_visible_placements)
    /\ op' = Op("hide", visibility)
    /\ UNCHANGED <<visibility, last_visible_placements, invalidated, pass>>

\* Faulty variant of SetterResult: stores and invalidates unconditionally.
SetterAlwaysInvalidates(value, current, inval) == <<value, TRUE>>

\* The new (_visibility, invalidated) of the visibility setter.
SetterResult(value, current, inval) ==
    IF value # current THEN <<value, TRUE>> ELSE <<current, inval>>

\* Container.visibility = value
SetVisibility ==
    \E value \in Visibility :
        /\ visibility' = SetterResult(value, visibility, invalidated)[1]
        /\ invalidated' = SetterResult(value, visibility, invalidated)[2]
        /\ op' = Op("set", value)
        /\ UNCHANGED <<placement, last_visible_placements, pass>>

Next == Render \/ HideAll \/ SetVisibility

Spec == Init /\ [][Next]_vars

\* One render pass of a freshly constructed Container, over the larger
\* family of layouts.
RenderGeom ==
    /\ op.name = "init"
    /\ \E layout \in GeomLayouts(Texts) : RenderPass(layout, Rendered(layout))

SpecGeom == Init /\ [][RenderGeom]_vars

----------------------------------------------------------------------------
(* The geometry the claims refer to.                                       *)

\* The canvas tree of the last render pass.
PassCanvas == Rendered(pass.layout).canvas

\* The placements of the Image canvases met when descending from a canvas
\* through its children, not below an Image canvas.
RECURSIVE ReachedPlacements(_)
ReachedPlacements(canvas) ==
    IF canvas.kind = "image" THEN {canvas.placement}
    ELSE UNION {ReachedPlacements(canvas.children[n].canvas) :
                    n \in 1..Len(canvas.children)}

\* The number of Image canvases so met.
RECURSIVE ReachedCount(_)
ReachedCount(canvas) ==
    IF canvas.kind = "image" THEN 1
    ELSE SumSeq([n \in 1..Len(canvas.children) |->
                    ReachedCount(canvas.children[n].canvas)])

\* The placements of all Image canvases of the tree, nested ones included.
RECURSIVE AllImagePlacements(_)
AllImagePlacements(canvas) ==
    (IF canvas.kind = "image" THEN {canvas.placement} ELSE {})
    \cup UNION {AllImagePlacements(canvas.children[n].canvas) :
                    n \in 1..Len(canvas.children)}

\* The reached Image canvases with the sums of the child offsets on the path
\* from the canvas at (x, y).
RECURSIVE ChildOffsetPositions(_, _, _)
ChildOffsetPositions(canvas, x, y) ==
    IF canvas.kind = "image" THEN {[placement |-> canvas.placement, x |-> x, y |-> y]}
    ELSE UNION {ChildOffsetPositions(canvas.children[n].canvas,
                                     x + canvas.children[n].x,
                                     y + canvas.children[n].y) :
                    n \in 1..Len(canvas.children)}

WidgetRows(wd) == RenderWidget(wd, <<>>).rows

\* The screen position of the top-left corner of every outermost Image
\* widget of a layout placed at (x, y): columns side by side, pile members
\* one below the other, padding to the left.
RECURSIVE ImagePositions(_, _, _)
ImagePositions(wd, x, y) ==
    CASE wd.k = "text" -> {}
      [] wd.k = "image" -> {[placement |-> wd.p, x |-> x, y |-> y]}
      [] wd.k = "pad" -> ImagePositions(wd.cs[1], x + wd.l, y)
      [] wd.k = "cols" ->
            UNION {ImagePositions(wd.cs[i],
                                  x + SumSeq([j \in 1..(i - 1) |-> WidgetCols(wd.cs[j])]),
                                  y) : i \in 1..Len(wd.cs)}
      [] wd.k = "pile" ->
            UNION {ImagePositions(wd.cs[i], x,
                                  y + SumSeq([j \in 1..(i - 1) |-> WidgetRows(wd.cs[j])])) :
                        i \in 1..Len(wd.cs)}

\* The screen column at which each view of a shard starts.  `line` is the
\* row above, left to right: the width of each view and the rows it still
\* has to run (0: it ended, its columns are free).  The views of the shard
\* fill the free columns in order, the rest goes to the right end.
RECURSIVE PlaceViews(_, _, _, _, _, _, _, _)
PlaceViews(line, i, cviews, j, col, gap, outLine, outCols) ==
    IF i <= Len(line) /\ line[i].left = 0
    THEN PlaceViews(line, i + 1, cviews, j, col, gap + line[i].cols, outLine, outCols)
    ELSE IF j <= Len(cviews) /\ (gap > 0 \/ i > Len(line))
    THEN PlaceViews(line, i, cviews, j + 1, col + cviews[j].cols,
                    gap - cviews[j].cols,
                    Append(outLine, [cols |-> cviews[j].cols, left |-> cviews[j].rows]),
                    Append(outCols, col))
    ELSE IF i <= Len(line)
    THEN PlaceViews(line, i + 1, cviews, j, col + line[i].cols, 0,
                    Append(outLine, line[i]), outCols)
    ELSE [line |-> outLine, cols |-> outCols]

RECURSIVE ViewColumnsLoop(_, _, _, _)
ViewColumnsLoop(shards, i, line, out) ==
    IF i > Len(shards) THEN out
    ELSE LET placed == PlaceViews(line, 1, shards[i].cviews, 1, 0, 0, <<>>, <<>>)
             below == [n \in 1..Len(placed.line) |->
                         [cols |-> placed.line[n].cols,
                          left |-> placed.line[n].left - shards[i].rows]]
         IN ViewColumnsLoop(shards, i + 1, below, Append(out, placed.cols))

\* For every shard, the start column of each of its views.
ViewColumns(shards) == ViewColumnsLoop(shards, 1, <<>>, <<>>)

----------------------------------------------------------------------------
(* Properties.                                                             *)

\* The placements a pass finds: those of the reached Image canvases when the
\* container is VISIBLE (the tree is not walked otherwise).
FoundInPass == IF visibility = VISIBLE THEN ReachedPlacements(PassCanvas) ELSE {}

\* C1: in every render pass the placements set INVISIBLE are exactly those
\* visible after the previous pass and not found in this one; each of them is
\* INVISIBLE afterwards, a placement found in both passes is not hidden and
\* is VISIBLE, and the first pass hides nothing.
C1_HidesExactlyTheDisappeared ==
    op.name = "render" =>
        /\ pass.hidden = pass.prev \ FoundInPass
        /\ \A p \in pass.hidden : placement[p].visibility = INVISIBLE
        /\ \A p \in pass.prev \cap FoundInPass :
               p \notin pass.hidden /\ placement[p].visibility = VISIBLE
        /\ pass.first => (pass.prev = {} /\ pass.hidden = {})

\* A pass that hid one placement and kept another one.
C1_Witness ==
    /\ op.name = "render"
    /\ pass.hidden # {}
    /\ pass.prev \cap FoundInPass # {}

\* C3 as stated: hide() sets every last-visible placement INVISIBLE, and
\* after hide() and a render pass of a VISIBLE container every placement that
\* hide() hid and that still has an Image canvas somewhere in the canvas tree
\* is VISIBLE again.
C3_EveryImageOfTheTreeReappears ==
    /\ op.name = "hide" =>
           \A p \in last_visible_placements : placement[p].visibility = INVISIBLE
    /\ (op.name = "render" /\ pass.after = "hide" /\ visibility = VISIBLE) =>
           \A p \in pass.prev \cap AllImagePlacements(PassCanvas) :
               placement[p].visibility = VISIBLE

\* C3, amended: hide() sets every last-visible placement INVISIBLE, and after
\* hide() and a render pass of a VISIBLE container every placement of an Image
\* canvas the walk reaches (one not nested below another Image canvas) is
\* VISIBLE.
C3_ReachedImagesReappear ==
    /\ op.name = "hide" =>
           \A p \in last_visible_placements : placement[p].visibility = INVISIBLE
    /\ (op.name = "render" /\ pass.after = "hide" /\ visibility = VISIBLE) =>
           \A p \in ReachedPlacements(PassCanvas) : placement[p].visibility = VISIBLE

\* A placement hidden by hide() that the next pass shows again.
C3_Witness ==
    /\ op.name = "render"
    /\ pass.after = "hide"
    /\ visibility = VISIBLE
    /\ \E p \in pass.prev \cap ReachedPlacements(PassCanvas) :
           placement[p].visibility = VISIBLE

\* C4: assigning Container.visibility changes no placement and not the
\* last-visible set; it stores the value, and invalidates the widget exactly
\* when the value differs from the current one.
C4_SetterOnlyStoresAndInvalidates ==
    [][op'.name = "set" =>
          /\ placement' = placement
          /\ last_visible_placements' = last_visible_placements
          /\ visibility' = op'.value
          /\ (op'.value # visibility) => invalidated'
          /\ (op'.value = visibility) => (invalidated' = invalidated)]_vars

\* The container was switched to INVISIBLE and a placement is still shown.
C4_Witness ==
    /\ op.name = "set"
    /\ visibility = INVISIBLE
    /\ invalidated
    /\ \E p \in last_visible_placements : placement[p].visibility = VISIBLE

\* C5: a render pass of a container that is not VISIBLE moves and reveals no
\* placement, sets every placement of the last-visible set INVISIBLE and
\* leaves the last-visible set empty.
C5_InvisibleContainerHidesAll ==
    [][(op'.name = "render" /\ visibility # VISIBLE) =>
          /\ last_visible_placements' = {}
          /\ \A p \in last_visible_placements : placement'[p].visibility = INVISIBLE
          /\ \A p \in Placements :
                /\ placement'[p].x = placement[p].x
                /\ placement'[p].y = placement[p].y
                /\ placement'[p].visibility = VISIBLE
                      => placement[p].visibility = VISIBLE]_vars

\* A pass of an INVISIBLE container over a tree with Image canvases, which
\* hid what was visible.
C5_Witness ==
    /\ op.name = "render"
    /\ visibility = INVISIBLE
    /\ pass.prev # {}
    /\ pass.hidden = pass.prev
    /\ ReachedPlacements(PassCanvas) # {}

\* C6: after a render pass of a VISIBLE container the last-visible set is the
\* set of the placements of the reached Image canvases, each of them VISIBLE.
C6_LastVisibleIsReached ==
    (op.name = "render" /\ visibility = VISIBLE) =>
        /\ last_visible_placements = ReachedPlacements(PassCanvas)
        /\ \A p \in last_visible_placements : placement[p].visibility = VISIBLE

\* A pass that reached two Image canvases carrying one placement.
C6_Witness ==
    /\ op.name = "render"
    /\ visibility = VISIBLE
    /\ ReachedCount(PassCanvas) > Cardinality(last_visible_placements)
    /\ last_visible_placements # {}

\* C2 as stated, for the layouts in which the sums of the child offsets are
\* the screen position: after a render pass of a VISIBLE container the
\* placement of a reached Image canvas (carried by no other one) has the x
\* and y of the canvas's top-left corner.
C2_PlacementAtImagePosition ==
    (op.name = "render" /\ visibility = VISIBLE) =>
        LET reached == ChildOffsetPositions(PassCanvas, 0, 0)
        IN reached = ImagePositions(pass.layout, 0, 0) =>
              \A r \in reached :
                  (\A q \in reached : q.placement = r.placement => q = r) =>
                      /\ placement[r.placement].x = r.x
                      /\ placement[r.placement].y = r.y

\* C7 as stated: the total_ltrim assigned for every view of every shard of
\* the root canvas is the screen column at which the view starts.
C7_TotalLtrimIsStartColumn ==
    op.name = "render" =>
        _calculate_trims(PassCanvas).assigned = ViewColumns(PassCanvas.shards)

====
